---- MODULE Spec2Model ----
(***************************************************************************)
(* Q-Mag-Deep: the time-series store (database.py), the multi-source       *)
(* fetcher (data_fetcher.py) and the screener (screening_optimized.py).    *)
(*                                                                         *)
(* Four specifications share the module:                                   *)
(*   SpecDB      two threads in update_ticker_data;                        *)
(*   SpecRead    one thread in update_ticker_data and a thread reading     *)
(*               with get_ticker_last_updated and fetch_stock_data;        *)
(*   SpecFetch   fetch_data calls on a DataFetcher;                        *)
(*   SpecScreen  one screen_stocks call with its worker pool.              *)
(*                                                                         *)
(* Conventions.  Python's None and an absent value are the empty tuple     *)
(* <<>>, a present value v is <<v>>.  A pandas Timestamp is a record       *)
(* [day, secs]; a '%Y-%m-%d' string is its day number (such strings order  *)
(* as the days do).  A float is NaN (<<>>) or an exact rational <<n, d>>   *)
(* in lowest terms with d > 0.                                             *)
(***************************************************************************)
EXTENDS Integers, Sequences, FiniteSets, TLC

VARIABLES
    \* ---- database.py ----
    stocks,        \* committed rows of table stocks
    metadata,      \* committed rows of table metadata: ticker -> <<>> or <<row>>
    lock,          \* self.lock: <<>> when free, <<w>> when held by writer w
    cache,         \* lru_cache of get_ticker_last_updated, least recent first
    wpc,           \* writer -> position in update_ticker_data
    wargs,         \* writer -> arguments of its current call
    widx,          \* writer -> number of records executemany has written
    wcalls,        \* number of update_ticker_data calls made
    rpc,           \* reader position in fetch_stock_data
    rargs,         \* reader: arguments of the fetch_stock_data call
    rres,          \* reader: result dict being built
    obsMeta,       \* reader: last value returned by get_ticker_last_updated
    obsBars,       \* reader: dict just returned by fetch_stock_data
    lastSuccess,   \* history: ticker -> arguments of its last committed update
    commits,       \* history: number of committed updates
    reapplied,     \* history: the last commit repeated lastSuccess of its ticker
    \* ---- data_fetcher.py ----
    alpha_vantage_key, \* self.alpha_vantage_key: <<>> or <<key>>
    source_stats,  \* self.source_stats: source -> count
    fpc,           \* position in fetch_data: "idle", "loop" or "done"
    fargs,         \* retries and delay of the current call, source_stats at its start
    attempt,       \* loop variable attempt (0-based)
    srcIdx,        \* position of loop variable source in source_priority
    data,          \* local variable data of fetch_data
    fret,          \* the pair fetch_data returned
    trace,         \* history: provider calls and sleeps of the current call
    fcalls,        \* number of fetch_data calls made
    \* ---- screening_optimized.py ----
    spc,           \* position in screen_stocks: "idle", "collect" or "done"
    sargs,         \* arguments of the screen_stocks call
    stock_data,    \* what fetch_stock_data returned: <<[ticker, data]>>, in dict order
    futures,       \* the list futures: state and outcome of each submitted task
    fidx,          \* position of the loop over futures
    results,       \* the list results
    sret           \* what screen_stocks returned

dbVars == <<stocks, metadata, lock, cache, wpc, wargs, widx, wcalls, rpc, rargs,
            rres, obsMeta, obsBars, lastSuccess, commits, reapplied>>
fetchVars == <<alpha_vantage_key, source_stats, fpc, fargs, attempt, srcIdx, data, fret,
               trace, fcalls>>
screenVars == <<spc, sargs, stock_data, futures, fidx, results, sret>>
vars == <<dbVars, fetchVars, screenVars>>

----------------------------------------------------------------------------
\* Bounds of the model

MaxBars == 2         \* longest bar series passed to update_ticker_data
MaxCalls == 2        \* update_ticker_data calls made in a run

Tickers == {"AAA", "BBB"}
Writers == {"w1", "w2"}
Days == 1..MaxBars   \* trading days
None == <<>>
Some(v) == <<v>>
NaN == <<>>

----------------------------------------------------------------------------
\* Exact rationals standing for pandas floats

RECURSIVE Gcd(_, _)
Gcd(a, b) == IF b = 0 THEN a ELSE Gcd(b, a % b)

Abs(x) == IF x < 0 THEN -x ELSE x

Rat(n, d) ==
    LET g == Gcd(Abs(n), Abs(d))
        s == IF d < 0 THEN -1 ELSE 1
    IN  <<(s * n) \div g, (s * d) \div g>>

Lcm(a, b) == (a \div Gcd(a, b)) * b

\* x + k*y on floats; NaN propagates
RAddMul(x, k, y) ==
    IF x = NaN \/ y = NaN THEN NaN
    ELSE LET l == Lcm(x[2], y[2])
         IN  Rat(x[1] * (l \div x[2]) + k * y[1] * (l \div y[2]), l)

RAdd(x, y) == RAddMul(x, 1, y)
RSub(x, y) == RAddMul(x, -1, y)
RScale(x, n, d) == IF x = NaN THEN NaN ELSE Rat(x[1] * n, x[2] * d)
RGe(x, y) == x # NaN /\ y # NaN /\ x[1] * y[2] >= y[1] * x[2]
RLe(x, y) == x # NaN /\ y # NaN /\ x[1] * y[2] <= y[1] * x[2]
RLt(x, y) == x # NaN /\ y # NaN /\ x[1] * y[2] < y[1] * x[2]
RGt(x, y) == x # NaN /\ y # NaN /\ x[1] * y[2] > y[1] * x[2]
Int2Rat(n) == <<n, 1>>


----------------------------------------------------------------------------
\* database.py: the store

CacheMaxSize == 1000

\* date.strftime('%Y-%m-%d') and datetime.strptime(s, '%Y-%m-%d')
Strftime(ts) == ts.day
Strptime(s) == [day |-> s, secs |-> 0]

\* The DataFrames a caller passes: daily bars, index ascending, the i-th bar
\* of a series closing at i (so the same day closes differently in series
\* that start on different days).  Close stands for the provider columns
\* Open, High, Low, Close, Adj Close and Volume, all stored as they come.
DataFrames ==
    {df \in UNION {[1..n -> [ts : [day : Days, secs : {0}], Close : 1..MaxBars]] : n \in 0..MaxBars} :
        /\ \A i \in 1..Len(df) : df[i].Close = i
        /\ \A i \in 1..(Len(df) - 1) : df[i].ts.day < df[i + 1].ts.day}

Sources == {"yfinance", "alpha_vantage"}

RECURSIVE SumClose(_, _, _)
SumClose(df, lo, hi) == IF lo > hi THEN 0 ELSE df[hi].Close + SumClose(df, lo, hi - 1)

\* data['Close'].rolling(10).mean() at row i
MA10(df, i) == IF i < 10 THEN NaN ELSE Rat(SumClose(df, i - 9, i), 10)

\* series.ewm(span=span, adjust=False).mean() at row i of the series xs:
\* y_1 = x_1, y_i = (1 - a) * y_(i-1) + a * x_i with a = 2 / (span + 1)
RECURSIVE Ewm(_, _, _)
Ewm(xs, span, i) ==
    IF i = 1 THEN xs[1]
    ELSE RAdd(RScale(Ewm(xs, span, i - 1), span - 1, span + 1), RScale(xs[i], 2, span + 1))

EMA12(df, i) == Ewm([j \in 1..Len(df) |-> Int2Rat(df[j].Close)], 12, i)
EMA26(df, i) == Ewm([j \in 1..Len(df) |-> Int2Rat(df[j].Close)], 26, i)
MACD(df, i) == RSub(EMA12(df, i), EMA26(df, i))
MACD_Signal(df, i) == Ewm([j \in 1..Len(df) |-> MACD(df, j)], 9, i)
MACD_Hist(df, i) == RSub(MACD(df, i), MACD_Signal(df, i))

\* the records list of update_ticker_data
Records(ticker, df) ==
    [i \in 1..Len(df) |->
        [Date |-> Strftime(df[i].ts), Ticker |-> ticker, Close |-> df[i].Close,
         MA10 |-> MA10(df, i), EMA12 |-> EMA12(df, i), EMA26 |-> EMA26(df, i),
         MACD |-> MACD(df, i), MACD_Signal |-> MACD_Signal(df, i),
         MACD_Hist |-> MACD_Hist(df, i)]]

\* INSERT without REPLACE, taken as a plain append
InsertKeepingOld(table, row) == table \cup {row}

\* INSERT OR REPLACE INTO stocks, PRIMARY KEY (Date, Ticker)
InsertOrReplace(table, row) ==
    {r \in table : ~(r.Date = row.Date /\ r.Ticker = row.Ticker)} \cup {row}

RECURSIVE ExecuteMany(_, _, _)
ExecuteMany(table, recs, n) ==
    IF n = 0 THEN table ELSE InsertOrReplace(ExecuteMany(table, recs, n - 1), recs[n])

\* last_date = data.index[-1].strftime('%Y-%m-%d') and the metadata row
MetaRow(ticker, df, data_source) ==
    [ticker |-> ticker, last_updated |-> Strftime(df[Len(df)].ts),
     data_source |-> data_source]

\* SELECT last_updated FROM metadata WHERE ticker = ?, then strptime
QueryLastUpdated(ticker) ==
    IF metadata[ticker] = None THEN None
    ELSE Some(Strptime(metadata[ticker][1].last_updated))

\* SELECT * FROM stocks WHERE Ticker = ? AND Date BETWEEN ? AND ? ORDER BY Date
RECURSIVE OrderByDate(_)
OrderByDate(rows) ==
    IF rows = {} THEN <<>>
    ELSE LET last == CHOOSE r \in rows : \A q \in rows : q.Date <= r.Date
         IN  Append(OrderByDate(rows \ {last}), last)

QueryStocks(ticker, start_date, end_date) ==
    OrderByDate({r \in stocks : r.Ticker = ticker /\ start_date <= r.Date /\ r.Date <= end_date})

CallArgs == [ticker : Tickers, data : DataFrames, data_source : Sources]
NoArgs == [ticker |-> "AAA", data |-> <<>>, data_source |-> "yfinance"]

\* update_ticker_data, lines 105-106: empty input returns False; otherwise the
\* thread goes on to take self.lock
UpdateCall(w, a) ==
    /\ wpc[w] = "idle"
    /\ wcalls < MaxCalls
    /\ wcalls' = wcalls + 1
    /\ IF Len(a.data) = 0
       THEN UNCHANGED <<wpc, wargs>>
       ELSE /\ wpc' = [wpc EXCEPT ![w] = "acquire"]
            /\ wargs' = [wargs EXCEPT ![w] = a]
    /\ UNCHANGED <<stocks, metadata, lock, cache, widx, rpc, rargs, rres, obsMeta,
                   obsBars, lastSuccess, commits, reapplied>>
    /\ UNCHANGED <<fetchVars, screenVars>>

AlwaysFree(w) == TRUE

\* threading.Lock: acquire succeeds only when nobody holds it
LockFree(w) == lock = None

\* with self.lock, sqlite3.connect(...): line 108
Acquire(w) ==
    /\ wpc[w] = "acquire"
    /\ LockFree(w)
    /\ lock' = Some(w)
    /\ wpc' = [wpc EXCEPT ![w] = "insert"]
    /\ widx' = [widx EXCEPT ![w] = 0]
    /\ UNCHANGED <<stocks, metadata, cache, wargs, wcalls, rpc, rargs, rres, obsMeta,
                   obsBars, lastSuccess, commits, reapplied>>
    /\ UNCHANGED <<fetchVars, screenVars>>

\* cursor.executemany writes one record into the open transaction
InsertRecord(w) ==
    /\ wpc[w] = "insert"
    /\ widx' = [widx EXCEPT ![w] = @ + 1]
    /\ wpc' = [wpc EXCEPT ![w] = IF widx[w] + 1 = Len(wargs[w].data) THEN "meta" ELSE "insert"]
    /\ UNCHANGED <<stocks, metadata, lock, cache, wargs, wcalls, rpc, rargs, rres,
                   obsMeta, obsBars, lastSuccess, commits, reapplied>>
    /\ UNCHANGED <<fetchVars, screenVars>>

\* INSERT OR REPLACE INTO metadata, in the same transaction
WriteMeta(w) ==
    /\ wpc[w] = "meta"
    /\ wpc' = [wpc EXCEPT ![w] = "commit"]
    /\ UNCHANGED <<stocks, metadata, lock, cache, wargs, widx, wcalls, rpc, rargs, rres,
                   obsMeta, obsBars, lastSuccess, commits, reapplied>>
    /\ UNCHANGED <<fetchVars, screenVars>>

\* conn.commit(): the transaction's writes become visible to other connections
Commit(w) ==
    LET a == wargs[w]
        recs == Records(a.ticker, a.data)
    IN  /\ wpc[w] = "commit"
        /\ stocks' = ExecuteMany(stocks, recs, widx[w])
        /\ metadata' = [metadata EXCEPT ![a.ticker] = Some(MetaRow(a.ticker, a.data, a.data_source))]
        /\ wpc' = [wpc EXCEPT ![w] = "exit"]
        /\ lastSuccess' = [lastSuccess EXCEPT ![a.ticker] = Some([data |-> a.data, data_source |-> a.data_source])]
        /\ commits' = commits + 1
        /\ reapplied' = (lastSuccess[a.ticker] = Some([data |-> a.data, data_source |-> a.data_source]))
        /\ UNCHANGED <<lock, cache, wargs, widx, wcalls, rpc, rargs, rres, obsMeta, obsBars>>
        /\ UNCHANGED <<fetchVars, screenVars>>

\* return True: leaving the with block releases self.lock
Exit(w) ==
    /\ wpc[w] = "exit"
    /\ lock' = IF lock = Some(w) THEN None ELSE lock
    /\ wpc' = [wpc EXCEPT ![w] = "idle"]
    /\ wargs' = [wargs EXCEPT ![w] = NoArgs]
    /\ widx' = [widx EXCEPT ![w] = 0]
    /\ UNCHANGED <<stocks, metadata, cache, wcalls, rpc, rargs, rres,
                   obsMeta, obsBars, lastSuccess, commits, reapplied>>
    /\ UNCHANGED <<fetchVars, screenVars>>


\* functools.lru_cache(maxsize=1000): the entries holding this key
CacheHits(ticker) == {i \in 1..Len(cache) : cache[i].key = ticker}

RemoveAt(seq, i) == SubSeq(seq, 1, i - 1) \o SubSeq(seq, i + 1, Len(seq))

\* get_ticker_last_updated behind its lru_cache: a hit returns the stored
\* value and becomes most recent; a miss runs the query and stores its
\* result (None too), evicting the least recent entry when full
GetLastUpdated(ticker) ==
    LET hits == CacheHits(ticker)
        i == CHOOSE j \in hits : TRUE
        value == IF hits # {} THEN cache[i].value ELSE QueryLastUpdated(ticker)
        entry == [key |-> ticker, value |-> value]
        grown == IF hits # {} THEN Append(RemoveAt(cache, i), entry) ELSE Append(cache, entry)
    IN  /\ rpc = "idle"
        /\ cache' = IF Len(grown) > CacheMaxSize THEN Tail(grown) ELSE grown
        /\ obsMeta' = Some([ticker |-> ticker, value |-> value, epoch |-> commits,
                             settled |-> \A w \in Writers : wpc[w] # "exit"])
        /\ UNCHANGED <<stocks, metadata, lock, wpc, wargs, widx, wcalls, rpc, rargs, rres,
                       obsBars, lastSuccess, commits, reapplied>>
        /\ UNCHANGED <<fetchVars, screenVars>>

MaxList == 1         \* longest ticker list passed to fetch_stock_data
TickerLists == UNION {[1..n -> Tickers] : n \in 1..MaxList}

\* fetch_stock_data, lines 154-155: result = {} and the connection is opened
FetchCall(tickers, start_date, end_date) ==
    /\ rpc = "idle"
    /\ rpc' = "query"
    /\ rargs' = [tickers |-> tickers, start_date |-> start_date, end_date |-> end_date]
    /\ rres' = [i |-> 1, res |-> <<>>, epochs |-> <<>>]
    /\ UNCHANGED <<stocks, metadata, lock, cache, wpc, wargs, widx, wcalls, obsMeta,
                   obsBars, lastSuccess, commits, reapplied>>
    /\ UNCHANGED <<fetchVars, screenVars>>

\* one turn of the loop of fetch_stock_data: the query for one ticker, kept
\* when it has rows; after the last ticker the dict is returned
FetchQuery ==
    LET t == rargs.tickers[rres.i]
        df == QueryStocks(t, rargs.start_date, rargs.end_date)
        res == IF df # <<>> THEN (t :> df) @@ rres.res ELSE rres.res
        epochs == (t :> commits) @@ rres.epochs
    IN  /\ rpc = "query"
        /\ IF rres.i = Len(rargs.tickers)
           THEN /\ rpc' = "returned"
                /\ obsBars' = Some([res |-> res, epochs |-> epochs])
                /\ rres' = [i |-> 1, res |-> <<>>, epochs |-> <<>>]
           ELSE /\ rres' = [i |-> rres.i + 1, res |-> res, epochs |-> epochs]
                /\ UNCHANGED <<rpc, obsBars>>
        /\ UNCHANGED <<stocks, metadata, lock, cache, wpc, wargs, widx, wcalls, rargs,
                       obsMeta, lastSuccess, commits, reapplied>>
        /\ UNCHANGED <<fetchVars, screenVars>>

\* the caller of fetch_stock_data goes on and drops the dict
FetchDone ==
    /\ rpc = "returned"
    /\ rpc' = "idle"
    /\ obsBars' = None
    /\ rargs' = [tickers |-> <<>>, start_date |-> 1, end_date |-> 1]
    /\ UNCHANGED <<stocks, metadata, lock, cache, wpc, wargs, widx, wcalls, rres,
                   obsMeta, lastSuccess, commits, reapplied>>
    /\ UNCHANGED <<fetchVars, screenVars>>

----------------------------------------------------------------------------
\* data_fetcher.py: the multi-source fetcher

MaxRetries == 3      \* largest retries argument of fetch_data
MaxFetchCalls == 2   \* fetch_data calls made in a run
Delays == {1, 5}     \* delay arguments of fetch_data

source_priority == <<"yfinance", "alpha_vantage">>

\* values of a Python variable holding a DataFrame, None, or nothing yet
Unbound == [kind |-> "unbound", empty |-> TRUE, id |-> ""]
NoData == [kind |-> "none", empty |-> TRUE, id |-> ""]
Frame(id) == [kind |-> "frame", empty |-> FALSE, id |-> id]
EmptyFrame == [kind |-> "frame", empty |-> TRUE, id |-> ""]

\* what one provider call can do: raise, or deliver an empty or a filled frame
ProviderOutcomes ==
    {[raises |-> TRUE, frame |-> EmptyFrame], [raises |-> FALSE, frame |-> EmptyFrame],
     [raises |-> FALSE, frame |-> Frame("dfA")], [raises |-> FALSE, frame |-> Frame("dfB")]}

\* the result of a helper: the value it returns, or the exception it lets out
Returns(v) == [raised |-> FALSE, value |-> v]

\* _fetch_yfinance: every exception of yf.download is caught and None is
\* returned; an empty frame becomes None
FetchYfinance(outcome) ==
    IF outcome.raises THEN Returns(NoData)
    ELSE Returns(IF ~outcome.frame.empty THEN outcome.frame ELSE NoData)

\* _fetch_alpha_vantage: None without a key; otherwise as _fetch_yfinance
FetchAlphaVantage(outcome) ==
    IF alpha_vantage_key = None THEN Returns(NoData)
    ELSE IF outcome.raises THEN Returns(NoData)
    ELSE Returns(IF ~outcome.frame.empty THEN outcome.frame ELSE NoData)

\* line 36: data is not None and not data.empty
Usable(d) == d.kind = "frame" /\ ~d.empty

CreditFirst(stats, source) == [stats EXCEPT ![source_priority[1]] = @ + 1]

\* line 37: self.source_stats[source] += 1
Credit(stats, source) == [stats EXCEPT ![source] = @ + 1]

StatsCountingAttempts(stats, source, success) == Credit(stats, source)

\* lines 36-37: the counter moves only inside the success test
StatsAfter(stats, source, success) == IF success THEN Credit(stats, source) ELSE stats

Failed == [data |-> NoData, label |-> "failed"]

\* DataFetcher.__init__(alpha_vantage_key)
NewFetcher(key) ==
    /\ fpc = "new"
    /\ fpc' = "idle"
    /\ alpha_vantage_key' = key
    /\ source_stats' = [s \in {source_priority[i] : i \in 1..Len(source_priority)} |-> 0]
    /\ UNCHANGED <<fargs, attempt, srcIdx, data, fret, trace, fcalls>>
    /\ UNCHANGED <<dbVars, screenVars>>

\* fetch_data is called: range(retries) is empty for retries = 0 and the
\* call falls through to return None, "failed"
FetchDataCall(retries, delay) ==
    /\ fpc = "idle"
    /\ fcalls < MaxFetchCalls
    /\ fcalls' = fcalls + 1
    /\ fargs' = [retries |-> retries, delay |-> delay, stats_before |-> source_stats]
    /\ attempt' = 0
    /\ srcIdx' = 1
    /\ data' = Unbound
    /\ trace' = <<>>
    /\ fret' = Failed
    /\ fpc' = IF retries = 0 THEN "done" ELSE "loop"
    /\ UNCHANGED <<alpha_vantage_key, source_stats>>
    /\ UNCHANGED <<dbVars, screenVars>>

\* one turn of the inner loop, lines 29-44, with the provider doing `outcome`
FetchStep(outcome) ==
    LET source == source_priority[srcIdx]
        called == source = "yfinance" \/ (source = "alpha_vantage" /\ alpha_vantage_key # None)
        r == IF source = "yfinance" THEN FetchYfinance(outcome) ELSE FetchAlphaVantage(outcome)
        assigned == IF called /\ ~r.raised THEN r.value ELSE data
        \* the try body raises when a helper raises or data is read unbound
        exception == (called /\ r.raised) \/ assigned.kind = "unbound"
        success == ~exception /\ Usable(assigned)
        callEvent == [kind |-> "call", source |-> source, attempt |-> attempt,
                      raised |-> outcome.raises,
                      failed |-> outcome.raises \/ outcome.frame.empty,
                      frame |-> outcome.frame, secs |-> 0]
        sleepEvent == [kind |-> "sleep", source |-> source, attempt |-> attempt,
                       raised |-> FALSE, failed |-> TRUE, frame |-> EmptyFrame,
                       secs |-> fargs.delay * (attempt + 1)]
        last == srcIdx = Len(source_priority) /\ attempt + 1 = fargs.retries
    IN  /\ fpc = "loop"
        /\ data' = assigned
        /\ trace' = trace \o (IF called THEN <<callEvent>> ELSE <<>>)
                          \o (IF exception THEN <<sleepEvent>> ELSE <<>>)
        /\ source_stats' = StatsAfter(source_stats, source, success)
        /\ IF success
           THEN /\ fret' = [data |-> assigned, label |-> source]
                /\ fpc' = "done"
                /\ UNCHANGED <<attempt, srcIdx>>
           ELSE /\ fpc' = IF last THEN "done" ELSE "loop"
                /\ fret' = Failed
                /\ srcIdx' = IF srcIdx = Len(source_priority) THEN 1 ELSE srcIdx + 1
                /\ attempt' = IF srcIdx = Len(source_priority) /\ ~last THEN attempt + 1 ELSE attempt
        /\ UNCHANGED <<alpha_vantage_key, fargs, fcalls>>
        /\ UNCHANGED <<dbVars, screenVars>>

\* the caller has the returned pair and may call again
FetchDataReturn ==
    /\ fpc = "done"
    /\ fpc' = "idle"
    /\ UNCHANGED <<alpha_vantage_key, source_stats, fargs, attempt, srcIdx, data, fret,
                   trace, fcalls>>
    /\ UNCHANGED <<dbVars, screenVars>>

----------------------------------------------------------------------------
\* screening_optimized.py: the screener

RiseShortDays == 22
RiseLongDays == 67
MinHistoryExtra == 30
BreakoutVolWindow == 10
MaxWorkers == 2      \* largest max_workers argument of screen_stocks

\* A stored series, built back from its last bar n: closes of 100 up to bar
\* n - 30, then 200, and `last` on bar n; High and Low are h above and below
\* Close; volume 200, then 100 on bar n - 1 and lastVol on bar n.  A series
\* with text = TRUE holds a text value in its first Close cell.
MkSeries(n, last, h, lastVol, text) ==
    [j \in 1..n |->
        LET c == IF j <= n - 30 THEN 100 ELSE IF j < n THEN 200 ELSE last
        IN  [Date |-> j, Close |-> c, High |-> c + h, Low |-> c - h,
             Volume |-> IF j <= n - 2 THEN 200 ELSE IF j = n - 1 THEN 100 ELSE lastVol,
             numeric |-> ~(text /\ j = 1)]]

StoredSeries ==
    {MkSeries(70, 220, 2, 100, FALSE), MkSeries(70, 220, 2, 400, FALSE),
     MkSeries(70, 222, 2, 400, FALSE), MkSeries(70, 220, 1, 400, FALSE),
     MkSeries(69, 220, 2, 400, FALSE), MkSeries(34, 220, 2, 100, FALSE),
     MkSeries(70, 220, 2, 100, TRUE)}

\* the dicts fetch_stock_data can return for tickers = ["AAA", "BBB"]:
\* tickers without rows are left out
StockData ==
    {<<>>}
    \cup {<<[ticker |-> "AAA", data |-> a]>> : a \in StoredSeries}
    \cup {<<[ticker |-> "BBB", data |-> b]>> : b \in StoredSeries}
    \cup {<<[ticker |-> "AAA", data |-> a], [ticker |-> "BBB", data |-> b]>> :
            a \in StoredSeries, b \in StoredSeries}

ScreenArgs ==
    {[prior_days |-> w[1], consol_days |-> w[2], min_rise_22 |-> m, min_rise_67 |-> 40,
      max_range |-> 10, min_adr |-> 2, max_workers |-> k] :
        w \in {<<3, 2>>, <<30, 10>>}, m \in {0, 10}, k \in 1..MaxWorkers}

RECURSIVE MaxClose(_, _, _)
MaxClose(df, lo, hi) ==
    IF lo = hi THEN df[hi].Close
    ELSE LET m == MaxClose(df, lo, hi - 1) IN IF df[hi].Close > m THEN df[hi].Close ELSE m

RECURSIVE MinClose(_, _, _)
MinClose(df, lo, hi) ==
    IF lo = hi THEN df[hi].Close
    ELSE LET m == MinClose(df, lo, hi - 1) IN IF df[hi].Close < m THEN df[hi].Close ELSE m

RECURSIVE SumVolume(_, _, _)
SumVolume(df, lo, hi) == IF lo > hi THEN 0 ELSE df[hi].Volume + SumVolume(df, lo, hi - 1)

\* (close / close.shift(k) - 1) * 100 at row i
Rise(df, k, i) ==
    IF i <= k THEN NaN ELSE Rat(100 * (df[i].Close - df[i - k].Close), df[i - k].Close)

\* close.rolling(w).max() and .min() at row i
RecentHigh(df, w, i) == IF i < w \/ i > Len(df) THEN NaN ELSE Int2Rat(MaxClose(df, i - w + 1, i))
RecentLow(df, w, i) == IF i < w THEN NaN ELSE Int2Rat(MinClose(df, i - w + 1, i))

\* (recent_high / recent_low - 1) * 100
ConsolidationRange(df, w, i) ==
    IF i < w THEN NaN
    ELSE LET hi == MaxClose(df, i - w + 1, i)
             lo == MinClose(df, i - w + 1, i)
         IN  Rat(100 * (hi - lo), lo)

\* volume.rolling(w).mean() at row i (NaN outside the series, as after a shift)
VolumeMean(df, w, i) == IF i < w \/ i < 1 THEN NaN ELSE Rat(SumVolume(df, i - w + 1, i), w)

\* volume.rolling(consol_days).mean() < volume.shift(consol_days).rolling(prior_days).mean()
VolDecline(df, prior_days, consol_days, i) ==
    RLt(VolumeMean(df, consol_days, i), VolumeMean(df, prior_days, i - consol_days))

\* (high - low) / close.shift(1)
DailyRange(df, i) == IF i <= 1 THEN NaN ELSE Rat(df[i].High - df[i].Low, df[i - 1].Close)

RECURSIVE SumDailyRange(_, _, _)
SumDailyRange(df, lo, hi) ==
    IF lo > hi THEN Int2Rat(0) ELSE RAdd(SumDailyRange(df, lo, hi - 1), DailyRange(df, hi))

\* daily_range.rolling(prior_days).mean() * 100
Adr(df, w, i) ==
    IF i < w THEN NaN ELSE RScale(SumDailyRange(df, i - w + 1, i), 100, w)

\* (close > recent_high.shift(1)) & (close.shift(1) <= recent_high.shift(1))
Breakout(df, w, i) ==
    /\ i > 1
    /\ RGt(Int2Rat(df[i].Close), RecentHigh(df, w, i - 1))
    /\ RLe(Int2Rat(df[i - 1].Close), RecentHigh(df, w, i - 1))

\* volume > volume.rolling(10).mean() * 1.5
BreakoutVolume(df, i) ==
    RGt(Int2Rat(df[i].Volume), RScale(VolumeMean(df, BreakoutVolWindow, i), 3, 2))

MaskStrictRange(df, a, i) ==
    /\ RGe(Rise(df, RiseShortDays, i), Int2Rat(a.min_rise_22))
    /\ RGe(Rise(df, RiseLongDays, i), Int2Rat(a.min_rise_67))
    /\ RLt(ConsolidationRange(df, a.consol_days, i), Int2Rat(a.max_range))
    /\ RGe(Adr(df, a.prior_days, i), Int2Rat(a.min_adr))

\* the filter mask, lines 96-101
Mask(df, a, i) ==
    /\ RGe(Rise(df, RiseShortDays, i), Int2Rat(a.min_rise_22))
    /\ RGe(Rise(df, RiseLongDays, i), Int2Rat(a.min_rise_67))
    /\ RLe(ConsolidationRange(df, a.consol_days, i), Int2Rat(a.max_range))
    /\ RGe(Adr(df, a.prior_days, i), Int2Rat(a.min_adr))

\* the row of the result frame for matched row i, lines 108-119
ResultRow(ticker, df, a, i) ==
    [Ticker |-> ticker, Date |-> df[i].Date, Price |-> df[i].Close,
     Prior_Rise_22 |-> Rise(df, RiseShortDays, i),
     Prior_Rise_67 |-> Rise(df, RiseLongDays, i),
     Consolidation_Range |-> ConsolidationRange(df, a.consol_days, i),
     ADR |-> Adr(df, a.prior_days, i),
     Breakout |-> Breakout(df, a.consol_days, i),
     Breakout_Volume |-> BreakoutVolume(df, i),
     Volume |-> df[i].Volume]

RECURSIVE RowsOf(_, _, _, _)
RowsOf(ticker, df, a, n) ==
    IF n = 0 THEN <<>>
    ELSE IF Mask(df, a, n) THEN Append(RowsOf(ticker, df, a, n - 1), ResultRow(ticker, df, a, n))
    ELSE RowsOf(ticker, df, a, n - 1)

HistoryWithoutExtra(df, a) == Len(df) >= a.prior_days + a.consol_days

\* line 74, negated: the series is long enough to be analysed
SufficientHistory(df, a) == Len(df) >= a.prior_days + a.consol_days + MinHistoryExtra

\* outcomes of a task: a returned frame or None, whether an exception was
\* caught and logged on the way, or an exception let out of the task
NoneResult(caught) == [raised |-> FALSE, caught |-> caught, kind |-> "none", rows |-> <<>>]
FrameResult(rows) == [raised |-> FALSE, caught |-> FALSE, kind |-> "frame", rows |-> rows]

\* _analyze_stock: the whole body runs in try ... except Exception, which
\* logs and returns None; arithmetic on a text cell raises TypeError
AnalyzeStock(ticker, df, a) ==
    IF ~SufficientHistory(df, a) THEN NoneResult(FALSE)
    ELSE IF \E i \in 1..Len(df) : ~df[i].numeric THEN NoneResult(TRUE)
    ELSE LET rows == RowsOf(ticker, df, a, Len(df))
         IN  IF rows = <<>> THEN NoneResult(FALSE) ELSE FrameResult(rows)

Pending == [state |-> "pending", result |-> NoneResult(FALSE)]

\* screen_stocks up to line 48: the stored series are fetched and one task
\* per ticker is submitted
ScreenCall(a, sd) ==
    /\ spc = "idle"
    /\ spc' = "collect"
    /\ sargs' = a
    /\ stock_data' = sd
    /\ futures' = [i \in 1..Len(sd) |-> Pending]
    /\ fidx' = 1
    /\ results' = <<>>
    /\ UNCHANGED sret
    /\ UNCHANGED <<dbVars, fetchVars>>

Running == {i \in 1..Len(futures) : futures[i].state = "running"}

\* a pool thread takes the oldest queued task; at most max_workers run
WorkerStart(i) ==
    /\ futures[i].state = "pending"
    /\ \A j \in 1..(i - 1) : futures[j].state # "pending"
    /\ Cardinality(Running) < sargs.max_workers
    /\ futures' = [futures EXCEPT ![i].state = "running"]
    /\ UNCHANGED <<spc, sargs, stock_data, fidx, results, sret>>
    /\ UNCHANGED <<dbVars, fetchVars>>

\* the task _analyze_stock(ticker, data, ...) finishes
WorkerFinish(i) ==
    /\ futures[i].state = "running"
    /\ futures' = [futures EXCEPT ![i] =
            [state |-> "done",
             result |-> AnalyzeStock(stock_data[i].ticker, stock_data[i].data, sargs)]]
    /\ UNCHANGED <<spc, sargs, stock_data, fidx, results, sret>>
    /\ UNCHANGED <<dbVars, fetchVars>>

CollectOverwriting(res, r) ==
    IF r.raised THEN res ELSE IF r.kind # "none" THEN <<r.rows>> ELSE res

\* lines 52-57: a raised exception is logged, a None result is dropped
Collect(res, r) ==
    IF r.raised THEN res ELSE IF r.kind # "none" THEN Append(res, r.rows) ELSE res

\* one turn of the loop over futures: future.result() waits for the task
CollectNext ==
    /\ spc = "collect"
    /\ fidx <= Len(futures)
    /\ futures[fidx].state = "done"
    /\ results' = Collect(results, futures[fidx].result)
    /\ fidx' = fidx + 1
    /\ UNCHANGED <<spc, sargs, stock_data, futures, sret>>
    /\ UNCHANGED <<dbVars, fetchVars>>

RECURSIVE Concat(_)
Concat(frames) == IF frames = <<>> THEN <<>> ELSE Head(frames) \o Concat(Tail(frames))

\* line 59: pd.concat(results) if results else pd.DataFrame()
ScreenReturn ==
    /\ spc = "collect"
    /\ fidx > Len(futures)
    /\ spc' = "done"
    /\ sret' = [raised |-> FALSE, rows |-> Concat(results)]
    /\ UNCHANGED <<sargs, stock_data, futures, fidx, results>>
    /\ UNCHANGED <<dbVars, fetchVars>>

----------------------------------------------------------------------------
\* Properties of the store

\* the day of the latest bar of a series
LatestDay(df) == CHOOSE d \in {df[i].ts.day : i \in 1..Len(df)} :
                     \A i \in 1..Len(df) : df[i].ts.day <= d

\* C1: a get_ticker_last_updated(ticker) call made after a successful
\* update_ticker_data(ticker, ...) returns the date of the latest bar of the
\* most recent successful update of that ticker.  (The observation is judged
\* while no later update has committed, and only when no update was between
\* its commit and its return at the time of the call.)
C1_LastUpdatedIsLatest ==
    (/\ obsMeta # None
     /\ obsMeta[1].settled
     /\ obsMeta[1].epoch = commits
     /\ lastSuccess[obsMeta[1].ticker] # None)
    => obsMeta[1].value =
           Some([day |-> LatestDay(lastSuccess[obsMeta[1].ticker][1].data), secs |-> 0])

\* the rows of the last committed update of ticker t that fall in the range
\* of the reader's fetch_stock_data call
NewRowsInRange(t) ==
    LET recs == Records(t, lastSuccess[t][1].data)
    IN  {recs[i] : i \in {j \in 1..Len(recs) :
            rargs.start_date <= recs[j].Date /\ recs[j].Date <= rargs.end_date}}

RowsSeen(t) ==
    IF t \in DOMAIN obsBars[1].res
    THEN {obsBars[1].res[t][i] : i \in 1..Len(obsBars[1].res[t])}
    ELSE {}

\* C2: a reader never sees a ticker's bars of the new update together with
\* the old last-updated value, nor the new last-updated value with the new
\* bars absent.  (Both reads were made with no commit between them or since.)
C2_ReaderSeesConsistentPair ==
    (/\ obsMeta # None
     /\ obsBars # None
     /\ obsMeta[1].ticker \in DOMAIN obsBars[1].epochs
     /\ obsBars[1].epochs[obsMeta[1].ticker] = commits
     /\ obsMeta[1].epoch = commits
     /\ lastSuccess[obsMeta[1].ticker] # None)
    => LET t == obsMeta[1].ticker
           new == NewRowsInRange(t)
           newMeta == Some(Strptime(MetaRow(t, lastSuccess[t][1].data, "").last_updated))
       IN  /\ ~(new # {} /\ new \subseteq RowsSeen(t) /\ obsMeta[1].value # newMeta)
           /\ ~(obsMeta[1].value = newMeta /\ ~(new \subseteq RowsSeen(t)))

\* between the first bar write and the metadata write of writer w
WritesOpen(w) == wpc[w] \in {"insert", "meta"} /\ widx[w] >= 1

\* this step is a bar write or the metadata write of writer w
WriteStep(w) ==
    \/ wpc[w] = "insert" /\ widx'[w] = widx[w] + 1
    \/ wpc[w] = "meta" /\ wpc'[w] = "commit"

\* C3: the bar upserts and the metadata write of one update_ticker_data call
\* form one exclusive critical section: no bar write or metadata write of
\* another call occurs between the first bar write and the metadata write
\* of a call.
C3_ExclusiveSection ==
    [][\A w1 \in Writers, w2 \in Writers :
          (w1 # w2 /\ WritesOpen(w1)) => ~WriteStep(w2)]_vars

\* C3 witness: one call is between its first bar write and its metadata
\* write while a concurrent call waits for the lock
C3_Witness ==
    \E w1 \in Writers, w2 \in Writers :
        w1 # w2 /\ WritesOpen(w1) /\ wpc[w2] = "acquire"

PrimaryKeyUnique ==
    \A r \in stocks, q \in stocks : (r.Date = q.Date /\ r.Ticker = q.Ticker) => r = q

\* C7: update_ticker_data is idempotent: committing the series (and source)
\* that the ticker's last committed update wrote leaves the stored rows and
\* the metadata as they are, and there is always one row per (date, ticker).
C7_Idempotent ==
    /\ []PrimaryKeyUnique
    /\ [][\A w \in Writers :
            (/\ wpc[w] = "commit"
             /\ wpc'[w] = "exit"
             /\ lastSuccess[wargs[w].ticker] =
                    Some([data |-> wargs[w].data, data_source |-> wargs[w].data_source]))
            => (stocks' = stocks /\ metadata' = metadata)]_vars

\* C7 witness: the same series has been committed twice in a row for a ticker
C7_Witness == reapplied /\ stocks # {} /\ commits >= 2


----------------------------------------------------------------------------
\* Properties of the fetcher

CallEvents == SelectSeq(trace, LAMBDA e : e.kind = "call")

SourceRank(source) == CHOOSE i \in 1..Len(source_priority) : source_priority[i] = source

\* C4: when every source fails (raises or yields no data) on every attempt,
\* fetch_data returns (None, "failed") as a value and leaves every
\* per-source usage counter unchanged.
C4_AllFailReturnsFailed ==
    (\A i \in 1..Len(CallEvents) : CallEvents[i].failed)
    => /\ source_stats = fargs.stats_before
       /\ fpc = "done" => fret = Failed

\* C4 witness: a call with at least two rounds has run out of attempts with
\* both sources called in every round, some raising and some empty
C4_Witness ==
    /\ fpc = "done"
    /\ fargs.retries >= 2
    /\ Len(CallEvents) = fargs.retries * Len(source_priority)
    /\ \A i \in 1..Len(CallEvents) : CallEvents[i].failed
    /\ \E i \in 1..Len(CallEvents) : CallEvents[i].raised
    /\ \E i \in 1..Len(CallEvents) : ~CallEvents[i].raised
    /\ fret = Failed

\* C5: sources are tried in priority order within rising attempt rounds, at
\* most retries x (number of sources) provider calls are made, and every
\* failed source attempt that is followed by another step of the call is
\* followed at once by a wait of delay * (attempt + 1).
C5_BackoffAndCallBound ==
    /\ Len(CallEvents) <= fargs.retries * Len(source_priority)
    /\ \A i \in 1..Len(CallEvents), j \in 1..Len(CallEvents) :
          i < j => \/ CallEvents[i].attempt < CallEvents[j].attempt
                   \/ /\ CallEvents[i].attempt = CallEvents[j].attempt
                      /\ SourceRank(CallEvents[i].source) < SourceRank(CallEvents[j].source)
    /\ \A i \in 1..(Len(trace) - 1) :
          (trace[i].kind = "call" /\ trace[i].failed)
          => /\ trace[i + 1].kind = "sleep"
             /\ trace[i + 1].secs = fargs.delay * (trace[i].attempt + 1)

\* C6: a successful fetch_data returns the first non-empty result in
\* (attempt, source-priority) order with the label of the source that
\* produced it, adds one to that source's counter and leaves the other as
\* it was; without an API key alpha_vantage is never credited or returned.
C6_SuccessCreditsProducer ==
    LET n == Len(CallEvents)
    IN  /\ (\E i \in 1..n : ~CallEvents[i].failed)
           => fpc \in {"done", "idle"} /\ fret.label # "failed"
        /\ (fpc = "done" /\ fret.label # "failed")
           => /\ n >= 1
              /\ ~CallEvents[n].failed
              /\ \A i \in 1..(n - 1) : CallEvents[i].failed
              /\ fret.data = CallEvents[n].frame
              /\ fret.label = CallEvents[n].source
              /\ source_stats = [fargs.stats_before EXCEPT ![fret.label] = @ + 1]
        /\ alpha_vantage_key = None
           => fret.label # "alpha_vantage" /\ source_stats["alpha_vantage"] = 0

\* C6 witness: the second source delivers in the second round, after the
\* first source was credited by an earlier call
C6_Witness ==
    /\ fpc = "done"
    /\ fret.label = "alpha_vantage"
    /\ attempt = 1
    /\ fargs.stats_before["yfinance"] = 1
    /\ source_stats = [yfinance |-> 1, alpha_vantage |-> 1]

----------------------------------------------------------------------------
\* Properties of the screener

\* the rows of the returned frame that carry this ticker
RowsFor(ticker) == SelectSeq(sret.rows, LAMBDA r : r.Ticker = ticker)

MinHistory == sargs.prior_days + sargs.consol_days + MinHistoryExtra

AllNumeric(df) == \A i \in 1..Len(df) : df[i].numeric

\* C8: a ticker whose fetched series has fewer than prior_days + consol_days
\* + 30 bars has no row in the output of screen_stocks, and it is skipped
\* without an error: nothing is raised or caught for it and every other
\* task is still run.
C8_ShortHistoryExcluded ==
    spc = "done" =>
        \A i \in 1..Len(stock_data) :
            Len(stock_data[i].data) < MinHistory
            => /\ RowsFor(stock_data[i].ticker) = <<>>
               /\ ~futures[i].result.raised
               /\ ~futures[i].result.caught
               /\ ~sret.raised
               /\ \A j \in 1..Len(futures) : futures[j].state = "done"

\* C8 witness: a series too short for the call, yet long enough to have
\* every indicator defined on its last bars, next to a ticker with rows
C8_Witness ==
    /\ spc = "done"
    /\ \E i \in 1..Len(stock_data), j \in 1..Len(stock_data) :
          /\ i # j
          /\ Len(stock_data[i].data) < MinHistory
          /\ Len(stock_data[i].data) > RiseLongDays
          /\ RowsFor(stock_data[j].ticker) # <<>>

\* the four conditions of the claim at row d of a series
FourConditions(df, d) ==
    /\ RGe(Rise(df, RiseShortDays, d), Int2Rat(sargs.min_rise_22))
    /\ RGe(Rise(df, RiseLongDays, d), Int2Rat(sargs.min_rise_67))
    /\ RLe(ConsolidationRange(df, sargs.consol_days, d), Int2Rat(sargs.max_range))
    /\ RGe(Adr(df, sargs.prior_days, d), Int2Rat(sargs.min_adr))

RowCount(ticker, date) ==
    Cardinality({k \in 1..Len(sret.rows) :
        sret.rows[k].Ticker = ticker /\ sret.rows[k].Date = date})

\* C9: for a ticker with sufficient history, a date has exactly one row in
\* the output when rise_22 >= min_rise_22, rise_67 >= min_rise_67,
\* consolidation_range <= max_range and adr >= min_adr hold at that date, and
\* no row otherwise (the bounds are inclusive; vol_decline, breakout and
\* breakout_volume play no part).
C9_MaskDecidesRows ==
    spc = "done" =>
        \A i \in 1..Len(stock_data) :
            LET df == stock_data[i].data
            IN  (Len(df) >= MinHistory /\ AllNumeric(df))
                => \A d \in 1..Len(df) :
                       RowCount(stock_data[i].ticker, df[d].Date)
                           = IF FourConditions(df, d) THEN 1 ELSE 0

\* C9 witness: a row whose consolidation_range equals max_range is in the
\* output, a date with the range one above and the other three conditions
\* met is not, and rows with breakout and breakout_volume both ways are in
C9_Witness ==
    /\ spc = "done"
    /\ \E k \in 1..Len(sret.rows) :
          sret.rows[k].Consolidation_Range = Int2Rat(sargs.max_range)
    /\ \E k1 \in 1..Len(sret.rows), k2 \in 1..Len(sret.rows) :
          /\ sret.rows[k1].Breakout /\ ~sret.rows[k2].Breakout
          /\ sret.rows[k1].Breakout_Volume /\ ~sret.rows[k2].Breakout_Volume
    /\ \E i \in 1..Len(stock_data) :
          LET df == stock_data[i].data
              d == Len(df)
          IN  /\ Len(df) >= MinHistory
              /\ AllNumeric(df)
              /\ ConsolidationRange(df, sargs.consol_days, d) = Int2Rat(sargs.max_range + 1)
              /\ RGe(Rise(df, RiseShortDays, d), Int2Rat(sargs.min_rise_22))
              /\ RGe(Rise(df, RiseLongDays, d), Int2Rat(sargs.min_rise_67))
              /\ RGe(Adr(df, sargs.prior_days, d), Int2Rat(sargs.min_adr))
              /\ RowCount(stock_data[i].ticker, df[d].Date) = 0

\* the analysis of this series raises: it is long enough to be analysed and
\* holds a text cell
AnalysisFails(df) == Len(df) >= MinHistory /\ ~AllNumeric(df)

\* C10: whatever the scheduling, an exception in one ticker's analysis does
\* not abort the batch and is not raised to the caller: every task is run,
\* the result holds no row of a ticker whose analysis failed, and for every
\* other ticker exactly the rows its analysis returned.
C10_FailureDoesNotAbort ==
    spc = "done" =>
        /\ ~sret.raised
        /\ \A k \in 1..Len(sret.rows) :
              \E i \in 1..Len(stock_data) : stock_data[i].ticker = sret.rows[k].Ticker
        /\ \A i \in 1..Len(stock_data) :
              /\ futures[i].state = "done"
              /\ AnalysisFails(stock_data[i].data) => RowsFor(stock_data[i].ticker) = <<>>
              /\ ~AnalysisFails(stock_data[i].data) =>
                    RowsFor(stock_data[i].ticker) = futures[i].result.rows

\* C10 witness: with two workers, the first ticker's analysis failed and
\* the second ticker's rows are in the result
C10_Witness ==
    /\ spc = "done"
    /\ sargs.max_workers = 2
    /\ Len(stock_data) = 2
    /\ AnalysisFails(stock_data[1].data)
    /\ futures[1].result.caught
    /\ RowsFor(stock_data[2].ticker) # <<>>

----------------------------------------------------------------------------
\* The state after construction: an empty database file, a DataFetcher not
\* yet given its key, a screener at rest

Init ==
    /\ stocks = {}
    /\ metadata = [t \in Tickers |-> None]
    /\ lock = None
    /\ cache = <<>>
    /\ wpc = [w \in Writers |-> "idle"]
    /\ wargs = [w \in Writers |-> NoArgs]
    /\ widx = [w \in Writers |-> 0]
    /\ wcalls = 0
    /\ rpc = "idle"
    /\ rargs = [tickers |-> <<>>, start_date |-> 1, end_date |-> 1]
    /\ rres = [res |-> <<>>, epochs |-> <<>>]
    /\ obsMeta = None
    /\ obsBars = None
    /\ lastSuccess = [t \in Tickers |-> None]
    /\ commits = 0
    /\ reapplied = FALSE
    /\ alpha_vantage_key = None
    /\ source_stats = [s \in {source_priority[i] : i \in 1..Len(source_priority)} |-> 0]
    /\ fpc = "new"
    /\ fargs = [retries |-> 0, delay |-> 1, stats_before |-> source_stats]
    /\ attempt = 0
    /\ srcIdx = 1
    /\ data = Unbound
    /\ fret = Failed
    /\ trace = <<>>
    /\ fcalls = 0
    /\ spc = "idle"
    /\ sargs = [prior_days |-> 3, consol_days |-> 2, min_rise_22 |-> 0, min_rise_67 |-> 40,
                max_range |-> 10, min_adr |-> 2, max_workers |-> 1]
    /\ stock_data = <<>>
    /\ futures = <<>>
    /\ fidx = 1
    /\ results = <<>>
    /\ sret = [raised |-> FALSE, rows |-> <<>>]

----------------------------------------------------------------------------
\* Specifications

\* two threads in update_ticker_data on one StockDatabase
NextDB ==
    \/ \E w \in Writers, a \in CallArgs : UpdateCall(w, a)
    \/ \E w \in Writers : Acquire(w)
    \/ \E w \in Writers : InsertRecord(w)
    \/ \E w \in Writers : WriteMeta(w)
    \/ \E w \in Writers : Commit(w)
    \/ \E w \in Writers : Exit(w)

SpecDB == Init /\ [][NextDB]_vars

\* one thread in update_ticker_data and one reading thread
NextRead ==
    \/ \E a \in CallArgs : UpdateCall("w1", a)
    \/ Acquire("w1")
    \/ InsertRecord("w1")
    \/ WriteMeta("w1")
    \/ Commit("w1")
    \/ Exit("w1")
    \/ \E t \in Tickers : GetLastUpdated(t)
    \/ \E tl \in TickerLists, s \in Days, e \in Days : FetchCall(tl, s, e)
    \/ FetchQuery
    \/ FetchDone

SpecRead == Init /\ [][NextRead]_vars

\* fetch_data calls on one DataFetcher
NextFetch ==
    \/ \E key \in {None, Some("key")} : NewFetcher(key)
    \/ \E retries \in 0..MaxRetries, delay \in Delays : FetchDataCall(retries, delay)
    \/ \E outcome \in ProviderOutcomes : FetchStep(outcome)
    \/ FetchDataReturn

SpecFetch == Init /\ [][NextFetch]_vars

\* one screen_stocks call and its worker pool
NextScreen ==
    \/ \E a \in ScreenArgs, sd \in StockData : ScreenCall(a, sd)
    \/ \E i \in 1..Len(futures) : WorkerStart(i)
    \/ \E i \in 1..Len(futures) : WorkerFinish(i)
    \/ CollectNext
    \/ ScreenReturn

SpecScreen == Init /\ [][NextScreen]_vars

====
